---- MODULE Spec2Model ----
(***************************************************************************)
(* Base name-service front-end (src/index.tsx): the search, identity       *)
(* refresh, wallet session and subname minting handlers of the App         *)
(* component, as a state machine.  Every `await` of a handler is a         *)
(* suspension point: one action per handler segment between two awaits.    *)
(*                                                                         *)
(* Strings are sequences of tokens.  A token is one character ("a", "A",   *)
(* " ", ".") or a literal chunk that the program never looks inside        *)
(* ("0x", "eth", "You don't own ").  Hashes are symbolic terms, so the     *)
(* hash primitive is collision free.                                       *)
(***************************************************************************)
EXTENDS Integers, Sequences, FiniteSets, TLC

(* ------------------------------ bounds --------------------------------- *)
MaxTx == 2          \* transactions the wallet signs in one session
MaxClock == 1       \* the latest value of Date.now() in the mint specifications
MaxSearches == 2    \* handleSearch invocations in flight at once
MaxRefreshes == 2   \* fetchIdentityData invocations in flight at once

(* ------------------------- configuration ------------------------------- *)
BASE_CHAIN_ID_DECIMAL == 8453

Null == <<>>                       \* null / undefined of a string-valued state
ZeroAddress == <<"0x", "0", "0">>  \* ethers.ZeroAddress, addresses scaled to two hex digits
ZeroHash == <<"0x00">>             \* ethers.ZeroHash
RESOLVER_ADDRESS == <<"0x", "C", "6">>
BASE_SUFFIX == <<".", "base", ".", "eth">>

(* --------------------------- string library ---------------------------- *)
\* String.prototype.toLowerCase, token by token
LowerToken(c) ==
  CASE c = "A" -> "a" [] c = "B" -> "b" [] c = "C" -> "c" [] c = "M" -> "m"
    [] c = "S" -> "s" [] c = "ETH" -> "eth" [] c = "BASE" -> "base"
    [] OTHER -> c

UpperToken(c) ==
  CASE c = "a" -> "A" [] c = "b" -> "B" [] c = "c" -> "C" [] c = "m" -> "M"
    [] c = "s" -> "S" [] c = "eth" -> "ETH" [] c = "base" -> "BASE"
    [] OTHER -> c

toLowerCase(s) == [i \in 1..Len(s) |-> LowerToken(s[i])]

RECURSIVE trimStart(_)
trimStart(s) == IF s # <<>> /\ Head(s) = " " THEN trimStart(Tail(s)) ELSE s

RECURSIVE trimEnd(_)
trimEnd(s) == IF s # <<>> /\ s[Len(s)] = " " THEN trimEnd(SubSeq(s, 1, Len(s) - 1)) ELSE s

\* String.prototype.trim
trim(s) == trimEnd(trimStart(s))

\* String.prototype.includes for a one-token needle
includes(s, c) == \E i \in 1..Len(s) : s[i] = c

startsWith(s, p) == Len(s) >= Len(p) /\ SubSeq(s, 1, Len(p)) = p

endsWith(s, p) == Len(s) >= Len(p) /\ SubSeq(s, Len(s) - Len(p) + 1, Len(s)) = p

\* JavaScript truthiness of a string: the empty string and null are falsy
Truthy(s) == s # <<>>

(* ------------------------------ ethers --------------------------------- *)
HexDigits == {"0", "1", "6", "a", "b", "c", "A", "B", "C"}
HexLetters == {"a", "b", "c", "A", "B", "C"}

\* the EIP-55 form of an address: the case of each letter is a fixed function
\* of the lowercased address (here: letters are upper case)
ChecksumForm(a) == [i \in 1..Len(a) |-> IF i = 1 THEN a[i] ELSE UpperToken(LowerToken(a[i]))]

HasPrefix0x(s) == Len(s) >= 1 /\ s[1] = "0x"

\* ethers.isAddress: optional 0x prefix, the exact number of hex digits, and
\* a mixed-case string must carry the right checksum
isAddress(s) ==
  LET body == IF HasPrefix0x(s) THEN Tail(s) ELSE s
      full == <<"0x">> \o body
      lowers == \E i \in 1..Len(body) : body[i] \in HexLetters /\ LowerToken(body[i]) = body[i]
      uppers == \E i \in 1..Len(body) : body[i] \in HexLetters /\ UpperToken(body[i]) = body[i]
  IN  /\ Len(body) = Len(ZeroAddress) - 1
      /\ \A i \in 1..Len(body) : body[i] \in HexDigits
      /\ (lowers /\ uppers) => ChecksumForm(full) = full

\* ethers.getAddress of a string accepted by isAddress
getAddress(s) == ChecksumForm(IF HasPrefix0x(s) THEN s ELSE <<"0x">> \o s)

\* ethers.id: keccak256 of the UTF-8 bytes of a string
id(s) == <<"keccak(">> \o s \o <<")">>

\* one folding step of the name hash: keccak256(parentNode ++ labelHash)
FoldNode(node, labelHash) == <<"keccak(">> \o node \o labelHash \o <<")">>

RECURSIVE SplitLabels(_)
SplitLabels(s) ==
  IF ~includes(s, ".") THEN <<s>>
  ELSE LET i == CHOOSE k \in 1..Len(s) : s[k] = "." /\ \A j \in 1..(k - 1) : s[j] # "."
       IN  <<SubSeq(s, 1, i - 1)>> \o SplitLabels(SubSeq(s, i + 1, Len(s)))

\* ethers.namehash rejects a name with an empty label or a disallowed character
namehashThrows(name) ==
  \/ name = <<>>
  \/ \E i \in 1..Len(SplitLabels(name)) :
       SplitLabels(name)[i] = <<>> \/ includes(SplitLabels(name)[i], " ")

RECURSIVE FoldLabels(_, _)
FoldLabels(labels, node) ==
  IF labels = <<>> THEN node
  ELSE FoldLabels(SubSeq(labels, 1, Len(labels) - 1),
                  FoldNode(node, id(toLowerCase(labels[Len(labels)]))))

\* ethers.namehash: labels folded right to left from the zero node
namehash(name) == FoldLabels(SplitLabels(name), ZeroHash)

(* ------------------------------ helpers -------------------------------- *)
toNodeHash(name) ==
  IF ~Truthy(name) THEN ZeroHash ELSE namehash(trim(toLowerCase(name)))

\* toNodeHash throws exactly when ethers.namehash throws on its argument
toNodeHashThrows(name) == Truthy(name) /\ namehashThrows(trim(toLowerCase(name)))

\* a?.toLowerCase() === b.toLowerCase(), b never null
EqIgnoreCase(a, b) == a # Null /\ toLowerCase(a) = toLowerCase(b)

\* mutant: only records that hold "://" after http or https are kept as they are
resolveAvatarUrlStrict(name, record) ==
  IF ~Truthy(record) THEN <<>>
  ELSE IF startsWith(record, <<"http", "://">>) \/ startsWith(record, <<"http", "s", "://">>)
  THEN record
  ELSE IF startsWith(record, <<"ipfs://">>)
       THEN <<"http", "s", "://", "ipfs.io/ipfs/">> \o SubSeq(record, 2, Len(record))
  ELSE <<"http", "s", "://", "metadata.ens.domains/mainnet/avatar/">> \o name

resolveAvatarUrl(name, record) ==
  IF ~Truthy(record) THEN <<>>
  ELSE IF startsWith(record, <<"http">>) THEN record
  ELSE IF startsWith(record, <<"ipfs://">>)
       THEN <<"http", "s", "://", "ipfs.io/ipfs/">> \o SubSeq(record, 2, Len(record))
  ELSE <<"http", "s", "://", "metadata.ens.domains/mainnet/avatar/">> \o name

(* ------------------------- the outside world --------------------------- *)
Chains == {BASE_CHAIN_ID_DECIMAL, 1}

\* accounts as the wallet reports them (lower case hex)
Accounts == {<<"0x", "a", "1">>, <<"0x", "b", "1">>}

\* addresses as contract reads return them (EIP-55 form)
ChainAddresses == {getAddress(a) : a \in Accounts} \cup {ZeroAddress}

\* what a rejected promise carries: err.reason and err.message, either may be absent
Errors ==
  { [reason |-> <<"execution reverted: unauthorised">>, message |-> <<"call exception">>],
    [reason |-> Null, message |-> <<"user rejected action">>],
    [reason |-> Null, message |-> Null] }

\* new Error(text)
NewError(text) == [reason |-> Null, message |-> text]

NoError == [reason |-> Null, message |-> <<"no error">>]

\* what the user types into the three fields of the mint form
ParentInputs == { <<" ", "M", ".", "eth">>, <<" ">>, <<"m", ".", ".", "eth">> }
LabelInputs == { <<"S", " ">>, <<" ">> }
TargetInputs == { <<" ", "0x", "A", "1">>, <<"0x", "a">>, <<" ">> }

\* what the user types into the search box, and the trending tags
SearchInputs == { <<" ", "A">>, <<"m", ".", "eth">>, <<" ">>, <<"a", ".", ".", "b">> }
Tags == { <<"build", ".", "base", ".", "eth">>, <<"base", ".", "eth">> }

\* names the reverse registrar can hold for an address, and record values
ReverseNames == { <<"m", ".", "eth">>, <<"m", ".", "BASE", ".", "ETH">>, <<"m", ".", "xyz">> }
AvatarRecords == { <<"ipfs://", "Qm">>, <<"http", "s", "://", "x/a.png">>, <<"http", "x">>, <<"text">> }
TwitterRecords == { <<"@m">> }
UrlRecords == { <<"http", "s://m.xyz">> }

\* A world: the values the user and the network hand to the handlers, and how
\* many invocations of a handler run at once.  Each specification fixes one.
\*   accounts, chains   what the wallet can switch to
\*   owners, addrs      answers of registry.owner and resolver.addr
\*   names, resolvers   answers of lookupAddress and registry.resolver
\*   avatars, twitters, urls   answers of resolver.text;  counts: of balanceOf
\*   errors             what a rejected call carries
\*   parents, labels, targets, terms, tags   what the user enters or clicks
\*   refreshCap, searchCap   invocations in flight at once
\*   clockMax           Date.now() ranges over 0..clockMax
\*   history            ended refreshes and searches keep how they ran, and a
\*                      mint keeps the chain the wallet was on at the click
SmallWorld ==
  [accounts |-> {<<"0x", "a", "1">>}, chains |-> Chains,
   owners |-> {<<"0x", "A", "1">>, ZeroAddress}, addrs |-> {ZeroAddress},
   names |-> {}, resolvers |-> {RESOLVER_ADDRESS}, avatars |-> {}, twitters |-> {},
   urls |-> {}, counts |-> {0},
   errors |-> {[reason |-> Null, message |-> <<"user rejected action">>]},
   parents |-> {<<" ", "M", ".", "eth">>}, labels |-> {<<"S", " ">>},
   targets |-> {<<" ", "0x", "A", "1">>},
   terms |-> {<<"m", ".", "eth">>}, tags |-> {<<"base", ".", "eth">>},
   refreshCap |-> 1, searchCap |-> 1, clockMax |-> 0,
   history |-> FALSE]

MintWorld ==
  [SmallWorld EXCEPT !.accounts = Accounts, !.owners = ChainAddresses,
                     !.errors = Errors, !.parents = ParentInputs,
                     !.labels = LabelInputs, !.targets = TargetInputs,
                     !.clockMax = MaxClock]

SearchWorld ==
  [SmallWorld EXCEPT !.accounts = Accounts, !.owners = ChainAddresses,
                     !.addrs = ChainAddresses,
                     !.terms = SearchInputs, !.tags = Tags]

IdentityWorld ==
  [SmallWorld EXCEPT !.accounts = Accounts, !.names = ReverseNames,
                     !.resolvers = {<<"0x", "D", "7">>, ZeroAddress},
                     !.avatars = {<<"ipfs://", "Qm">>}, !.counts = {0, 2},
                     !.history = TRUE]

\* one valid form; a mint keeps the chain the wallet was on at the click
ChainWorld == [SmallWorld EXCEPT !.history = TRUE]

\* the names of one owner, searched by either account
MineWorld ==
  [SmallWorld EXCEPT !.accounts = Accounts,
                     !.owners = {<<"0x", "A", "1">>}, !.addrs = {<<"0x", "A", "1">>}]

\* labels with and without a dot
DottedWorld ==
  [SmallWorld EXCEPT !.labels = {<<"S", " ">>, <<"a", ".", "b">>}]

\* two searches at once, and the history of the searches
RaceWorld ==
  [SmallWorld EXCEPT !.terms = {<<"m", ".", "eth">>, <<" ", "A">>},
                     !.searchCap = 2, !.history = TRUE]

ProfileWorld ==
  [SmallWorld EXCEPT !.accounts = Accounts, !.owners = ChainAddresses,
                     !.addrs = ChainAddresses, !.avatars = AvatarRecords,
                     !.twitters = TwitterRecords, !.urls = UrlRecords,
                     !.terms = {<<" ", "A">>, <<"a", ".", ".", "b">>}]

(* ------------------------------- state --------------------------------- *)
VARIABLES
  ethereum,        \* window.ethereum is injected
  walletAccount,   \* the account the wallet exposes to the page, Null when none
  walletChain,     \* the chain the wallet is on
  mountChainId,    \* the pending reply to the eth_chainId request made at mount
  mountAccounts,   \* the pending reply to the eth_accounts request made at mount
  connect,         \* the connectWallet invocation in flight
  listeners,       \* how many handlers are registered on window.ethereum, per event
  address, chainId,
  userProfile, rootNameBalance, isRefreshing,
  shownFor,        \* history: the address whose data userProfile and rootNameBalance hold
  refreshes,       \* the fetchIdentityData invocations in flight
  searchTerm, isSearching, searchResult, searchError,
  searches,        \* the handleSearch invocations in flight
  parentName, subLabel, targetAddress, isMinting, mintStatus, recentMints,
  mints,           \* the handleMintSubname invocations in flight
  txCount,         \* transactions signed so far; the n-th has hash n
  clock            \* the last value Date.now() returned

walletVars == <<ethereum, walletAccount, walletChain, mountChainId, mountAccounts, connect,
                listeners, address, chainId>>
identityVars == <<userProfile, rootNameBalance, isRefreshing, shownFor, refreshes>>
searchVars == <<searchTerm, isSearching, searchResult, searchError, searches>>
mintFormVars == <<parentName, subLabel, targetAddress>>
mintVars == <<isMinting, mintStatus, recentMints, mints, txCount, clock>>
vars == <<walletVars, identityVars, searchVars, mintFormVars, mintVars>>

NoStatus == [type |-> "none", msg |-> <<>>, txHash |-> 0]
NoProfile == [set |-> FALSE, name |-> <<>>, avatar |-> <<>>]
NoData == [owner |-> <<>>, resolver |-> <<>>, avatar |-> <<>>, twitter |-> <<>>,
           url |-> <<>>, address |-> <<>>, isMine |-> FALSE]
NoResult == [set |-> FALSE, name |-> <<>>, available |-> FALSE, data |-> NoData]

\* how a promise that has not settled, and one that rejected, are recorded
Pending == <<"pending">>
Rejected == <<"rejected">>

\* one call on the wallet provider, the RPC endpoint or a contract
Call(fn, args) == [fn |-> fn, args |-> args]

\* an invocation of handleMintSubname: where it is suspended, the state its
\* closure captured, and what it has called so far.  After its end the record
\* keeps the owner it read and the error it caught until the next click.
MintIdle ==
  [pc |-> "idle", parentName |-> <<>>, subLabel |-> <<>>, targetAddress |-> <<>>,
   address |-> Null, ownerRead |-> Null, tx |-> 0, calls |-> <<>>, thrown |-> NoError,
   startChain |-> 0]

\* an invocation of fetchIdentityData: name is what lookupAddress returned,
\* resolverReply how registry.resolver settled.  In a world that keeps the
\* history, the record of an ended run tells how it ended ("done", "failed").
RefreshIdle == [pc |-> "idle", address |-> Null, name |-> <<>>, node |-> <<>>,
                resolverReply |-> Pending, resolverAddr |-> <<>>, calls |-> <<>>,
                outcome |-> "none"]

NoneShown == [userProfile |-> Null, rootNameBalance |-> Null]
ShownBoth(a) == [userProfile |-> a, rootNameBalance |-> a]

\* shownFor after setUserProfile or setRootNameBalance wrote what was fetched
\* for address a
ShownFor(w, state, a) ==
  IF w.history THEN [shownFor EXCEPT ![state] = a] ELSE shownFor

RefreshEnded(w, outcome) ==
  IF w.history THEN [RefreshIdle EXCEPT !.outcome = outcome] ELSE RefreshIdle

\* promise.catch(() => fallback): the value a settled promise is replaced by
OrElse(reply, fallback) == IF reply = Rejected THEN fallback ELSE reply

\* an invocation of handleSearch.  ownerReply and texts (avatar, com.twitter,
\* url) hold how the best-effort reads settled.  After its end the record
\* keeps how resolver.addr and the text reads settled until the next search.
\* In a world that keeps the history, started numbers the searches in the
\* order of their start, and an ended search keeps its number and its query.
SearchIdle == [pc |-> "idle", query |-> <<>>, address |-> Null, resolvedAddress |-> <<>>,
               owner |-> <<>>, ownerReply |-> Pending, texts |-> <<Pending, Pending, Pending>>,
               calls |-> <<>>, started |-> 0]

\* the record search r leaves when it ends, rec being what every world keeps
SearchEnded(w, r, rec) ==
  IF w.history THEN [rec EXCEPT !.query = r.query, !.started = r.started] ELSE rec

Max(S) == CHOOSE i \in S : \A j \in S : i >= j

ConnectIdle == [pc |-> "idle", account |-> Null]

\* the handlers on window.ethereum: n for each of the two events
Handlers(n) == [accountsChanged |-> n, chainChanged |-> n]

Min(S) == CHOOSE i \in S : \A j \in S : i <= j

(* ------------------------ fetchIdentityData ---------------------------- *)
\* the free slots: at most w.refreshCap invocations run at once
FreeRefresh(w) == {i \in 1..w.refreshCap : refreshes[i].pc = "idle"}

\* fetchIdentityData up to its first await, called from a render in which the
\* address state is a
fetchIdentityData(a, w) ==
  IF a = Null
  THEN UNCHANGED identityVars
  ELSE /\ FreeRefresh(w) # {}
       /\ refreshes' = [refreshes EXCEPT ![Min(FreeRefresh(w))] =
            [RefreshIdle EXCEPT !.pc = "lookupAddress", !.address = a,
                                !.calls = <<Call("lookupAddress", <<a>>)>>]]
       /\ isRefreshing' = TRUE
       /\ UNCHANGED <<userProfile, rootNameBalance, shownFor>>

\* useEffect(() => { if (address) fetchIdentityData() }, [address]), run by the
\* render that follows setAddress(a)
AddressEffect(a, w) ==
  IF a # address THEN fetchIdentityData(a, w) ELSE UNCHANGED identityVars

\* the refresh button of the identity panel
RefreshClick(w) ==
  /\ address # Null
  /\ ~isRefreshing
  /\ fetchIdentityData(address, w)
  /\ UNCHANGED <<walletVars, searchVars, mintFormVars, mintVars>>

\* mutant: the suffix is compared as written
RecognizedNameAsWritten(name) ==
  /\ Truthy(name)
  /\ \/ endsWith(name, BASE_SUFFIX)
     \/ endsWith(name, <<".", "eth">>)

RecognizedName(name) ==
  /\ Truthy(name)
  /\ \/ endsWith(toLowerCase(name), BASE_SUFFIX)
     \/ endsWith(toLowerCase(name), <<".", "eth">>)

\* lookupAddress resolved
fetchIdentityData_Lookup(i, w) ==
  /\ refreshes[i].pc = "lookupAddress"
  /\ \E name \in w.names \cup {Null} :
       LET r == refreshes[i] IN
       IF RecognizedName(name)
       THEN /\ refreshes' = [refreshes EXCEPT ![i] =
                 [r EXCEPT !.pc = "resolver", !.name = name, !.node = namehash(name),
                           !.calls = Append(@, Call("registry.resolver", <<namehash(name)>>))]]
            /\ UNCHANGED <<userProfile, rootNameBalance, isRefreshing, shownFor>>
       ELSE /\ userProfile' = NoProfile
            /\ shownFor' = ShownFor(w, "userProfile", r.address)
            /\ refreshes' = [refreshes EXCEPT ![i] =
                 [r EXCEPT !.pc = "balanceOf", !.name = name,
                           !.calls = Append(@, Call("registrar.balanceOf", <<r.address>>))]]
            /\ UNCHANGED <<rootNameBalance, isRefreshing>>
  /\ UNCHANGED <<walletVars, searchVars, mintFormVars, mintVars>>

\* registry.resolver(node) settled; a rejection is replaced by RESOLVER_ADDRESS
fetchIdentityData_Resolver(i, w) ==
  /\ refreshes[i].pc = "resolver"
  /\ \E reply \in w.resolvers \cup {Rejected} :
       LET r == [refreshes[i] EXCEPT !.resolverReply = reply]
           resolverAddr == OrElse(reply, RESOLVER_ADDRESS)
       IN
       IF resolverAddr # ZeroAddress
       THEN /\ refreshes' = [refreshes EXCEPT ![i] =
                 [r EXCEPT !.pc = "text", !.resolverAddr = resolverAddr,
                           !.calls = Append(@, Call("resolver.text", <<resolverAddr, r.node, <<"avatar">> >>))]]
            /\ UNCHANGED <<userProfile, rootNameBalance, isRefreshing, shownFor>>
       ELSE /\ userProfile' = [set |-> TRUE, name |-> r.name, avatar |-> <<>>]
            /\ shownFor' = ShownFor(w, "userProfile", r.address)
            /\ refreshes' = [refreshes EXCEPT ![i] =
                 [r EXCEPT !.pc = "balanceOf", !.resolverAddr = resolverAddr,
                           !.calls = Append(@, Call("registrar.balanceOf", <<r.address>>))]]
            /\ UNCHANGED <<rootNameBalance, isRefreshing>>
  /\ UNCHANGED <<walletVars, searchVars, mintFormVars, mintVars>>

\* resolver.text(node, "avatar") settled; a rejection is replaced by ""
fetchIdentityData_Avatar(i, w) ==
  /\ refreshes[i].pc = "text"
  /\ \E reply \in w.avatars \cup {<<>>, Rejected} :
       LET r == refreshes[i] IN
       /\ userProfile' = [set |-> TRUE, name |-> r.name,
                          avatar |-> resolveAvatarUrl(r.name, OrElse(reply, <<>>))]
       /\ shownFor' = ShownFor(w, "userProfile", r.address)
       /\ refreshes' = [refreshes EXCEPT ![i] =
            [r EXCEPT !.pc = "balanceOf",
                      !.calls = Append(@, Call("registrar.balanceOf", <<r.address>>))]]
  /\ UNCHANGED <<rootNameBalance, isRefreshing>>
  /\ UNCHANGED <<walletVars, searchVars, mintFormVars, mintVars>>

\* registrar.balanceOf resolved
fetchIdentityData_Balance(i, w) ==
  /\ refreshes[i].pc = "balanceOf"
  /\ \E balance \in w.counts : rootNameBalance' = balance
  /\ shownFor' = ShownFor(w, "rootNameBalance", refreshes[i].address)
  /\ isRefreshing' = FALSE
  /\ refreshes' = [refreshes EXCEPT ![i] = RefreshEnded(w, "done")]
  /\ UNCHANGED userProfile
  /\ UNCHANGED <<walletVars, searchVars, mintFormVars, mintVars>>

\* mutant: the catch block ends the run, there is no finally block
fetchIdentityData_RejectsNoFinally(i, w) ==
  /\ refreshes[i].pc \in {"lookupAddress", "balanceOf"}
  /\ refreshes' = [refreshes EXCEPT ![i] = RefreshEnded(w, "failed")]
  /\ UNCHANGED <<userProfile, rootNameBalance, isRefreshing, shownFor>>
  /\ UNCHANGED <<walletVars, searchVars, mintFormVars, mintVars>>

\* lookupAddress or balanceOf rejected: catch logs, finally resets the flag
fetchIdentityData_Rejects(i, w) ==
  /\ refreshes[i].pc \in {"lookupAddress", "balanceOf"}
  /\ isRefreshing' = FALSE
  /\ refreshes' = [refreshes EXCEPT ![i] = RefreshEnded(w, "failed")]
  /\ UNCHANGED <<userProfile, rootNameBalance, shownFor>>
  /\ UNCHANGED <<walletVars, searchVars, mintFormVars, mintVars>>

(* --------------------------- wallet session ---------------------------- *)
\* the reply to the eth_chainId request of the mount effect
Mount_ChainId ==
  /\ \E c \in mountChainId : chainId' = c
  /\ mountChainId' = {}
  /\ UNCHANGED <<listeners, ethereum, walletAccount, walletChain, mountAccounts, connect, address>>
  /\ UNCHANGED <<identityVars, searchVars, mintFormVars, mintVars>>

\* the reply to the eth_accounts request of the mount effect
Mount_Accounts(w) ==
  /\ \E a \in mountAccounts : address' = a /\ AddressEffect(a, w)
  /\ mountAccounts' = {}
  /\ UNCHANGED <<listeners, ethereum, walletAccount, walletChain, mountChainId, connect, chainId>>
  /\ UNCHANGED <<searchVars, mintFormVars, mintVars>>

\* the wallet changes chain and notifies handleChainChanged
handleChainChanged(w) ==
  /\ ethereum
  /\ \E c \in w.chains \ {walletChain} : walletChain' = c /\ chainId' = c
  /\ UNCHANGED <<listeners, ethereum, walletAccount, mountChainId, mountAccounts, connect, address>>
  /\ UNCHANGED <<identityVars, searchVars, mintFormVars, mintVars>>

\* the wallet changes or locks its account and notifies handleAccountsChanged
handleAccountsChanged(w) ==
  /\ ethereum
  /\ \E a \in (w.accounts \cup {Null}) \ {walletAccount} :
       walletAccount' = a /\ address' = a /\ AddressEffect(a, w)
  /\ UNCHANGED <<listeners, ethereum, walletChain, mountChainId, mountAccounts, connect, chainId>>
  /\ UNCHANGED <<searchVars, mintFormVars, mintVars>>

connectWallet_Click ==
  /\ ethereum
  /\ address = Null
  /\ connect.pc = "idle"
  /\ connect' = [pc |-> "eth_requestAccounts", account |-> Null]
  /\ UNCHANGED <<listeners, ethereum, walletAccount, walletChain, mountChainId, mountAccounts, address, chainId>>
  /\ UNCHANGED <<identityVars, searchVars, mintFormVars, mintVars>>

\* eth_requestAccounts resolved: the wallet exposes its account
connectWallet_Accounts(w) ==
  /\ connect.pc = "eth_requestAccounts"
  /\ \E a \in w.accounts :
       /\ walletAccount # Null => a = walletAccount
       /\ walletAccount' = a
       /\ connect' = [pc |-> "getNetwork", account |-> a]
  /\ UNCHANGED <<listeners, ethereum, walletChain, mountChainId, mountAccounts, address, chainId>>
  /\ UNCHANGED <<identityVars, searchVars, mintFormVars, mintVars>>

\* getNetwork resolved: setProvider, setAddress, setChainId
connectWallet_Network(w) ==
  /\ connect.pc = "getNetwork"
  /\ address' = connect.account
  /\ chainId' = walletChain
  /\ AddressEffect(connect.account, w)
  /\ connect' = ConnectIdle
  /\ UNCHANGED <<listeners, ethereum, walletAccount, walletChain, mountChainId, mountAccounts>>
  /\ UNCHANGED <<searchVars, mintFormVars, mintVars>>

\* either await rejected: the catch only logs
connectWallet_Rejects ==
  /\ connect.pc # "idle"
  /\ connect' = ConnectIdle
  /\ UNCHANGED <<listeners, ethereum, walletAccount, walletChain, mountChainId, mountAccounts, address, chainId>>
  /\ UNCHANGED <<identityVars, searchVars, mintFormVars, mintVars>>

\* wallet_switchEthereumChain (and wallet_addEthereumChain after error 4902)
\* granted: the wallet moves to Base and, when that is a change, notifies
\* handleChainChanged
switchToBase ==
  /\ ethereum
  /\ address # Null
  /\ chainId # BASE_CHAIN_ID_DECIMAL
  /\ walletChain' = BASE_CHAIN_ID_DECIMAL
  /\ chainId' = IF walletChain # BASE_CHAIN_ID_DECIMAL THEN BASE_CHAIN_ID_DECIMAL ELSE chainId
  /\ UNCHANGED <<listeners, ethereum, walletAccount, mountChainId, mountAccounts, connect, address>>
  /\ UNCHANGED <<identityVars, searchVars, mintFormVars, mintVars>>

(* ------------- the wallet session of the greeter variant --------------- *)
\* src/unnamed/part_001 registers its wallet handlers inside connectWallet
MaxListeners == 2   \* handlers per event the model lets the variant register

\* the Sign In button, which stays active once connected (one invocation at
\* a time in this model)
Greeter_connectWallet_Click ==
  /\ ethereum
  /\ connect.pc = "idle"
  /\ connect' = [pc |-> "eth_requestAccounts", account |-> Null]
  /\ UNCHANGED <<listeners, ethereum, walletAccount, walletChain, mountChainId, mountAccounts, address, chainId>>
  /\ UNCHANGED <<identityVars, searchVars, mintFormVars, mintVars>>

\* eth_requestAccounts resolved
Greeter_connectWallet_Accounts(w) ==
  /\ connect.pc = "eth_requestAccounts"
  /\ \E a \in w.accounts :
       /\ walletAccount # Null => a = walletAccount
       /\ walletAccount' = a
       /\ connect' = [pc |-> "getNetwork", account |-> a]
  /\ UNCHANGED <<listeners, ethereum, walletChain, mountChainId, mountAccounts, address, chainId>>
  /\ UNCHANGED <<identityVars, searchVars, mintFormVars, mintVars>>

\* getNetwork resolved
Greeter_connectWallet_Network ==
  /\ connect.pc = "getNetwork"
  /\ connect' = [connect EXCEPT !.pc = "getSigner"]
  /\ UNCHANGED <<listeners, ethereum, walletAccount, walletChain, mountChainId, mountAccounts, address, chainId>>
  /\ UNCHANGED <<identityVars, searchVars, mintFormVars, mintVars>>

\* getSigner resolved: the state is set and one more handler is registered
\* for each event
Greeter_connectWallet_Signer ==
  /\ connect.pc = "getSigner"
  /\ listeners.accountsChanged < MaxListeners
  /\ listeners.chainChanged < MaxListeners
  /\ address' = connect.account
  /\ chainId' = walletChain
  /\ listeners' = [accountsChanged |-> listeners.accountsChanged + 1,
                   chainChanged |-> listeners.chainChanged + 1]
  /\ connect' = ConnectIdle
  /\ UNCHANGED <<ethereum, walletAccount, walletChain, mountChainId, mountAccounts>>
  /\ UNCHANGED <<identityVars, searchVars, mintFormVars, mintVars>>

\* one of the three awaits rejected: the catch only logs
Greeter_connectWallet_Rejects ==
  /\ connect.pc # "idle"
  /\ connect' = ConnectIdle
  /\ UNCHANGED <<listeners, ethereum, walletAccount, walletChain, mountChainId, mountAccounts, address, chainId>>
  /\ UNCHANGED <<identityVars, searchVars, mintFormVars, mintVars>>

\* the wallet changes or locks its account: every registered handler runs
\* setAddress
Greeter_accountsChanged(w) ==
  /\ ethereum
  /\ \E a \in (w.accounts \cup {Null}) \ {walletAccount} :
       /\ walletAccount' = a
       /\ address' = IF listeners.accountsChanged > 0 THEN a ELSE address
  /\ UNCHANGED <<listeners, ethereum, walletChain, mountChainId, mountAccounts, connect, chainId>>
  /\ UNCHANGED <<identityVars, searchVars, mintFormVars, mintVars>>

\* the wallet changes chain: a registered handler reloads the page, which
\* starts again disconnected and without handlers
Greeter_chainChanged(w) ==
  /\ ethereum
  /\ \E c \in w.chains \ {walletChain} : walletChain' = c
  /\ IF listeners.chainChanged > 0
     THEN /\ address' = Null
          /\ chainId' = 0
          /\ connect' = ConnectIdle
          /\ listeners' = Handlers(0)
     ELSE UNCHANGED <<address, chainId, connect, listeners>>
  /\ UNCHANGED <<ethereum, walletAccount, mountChainId, mountAccounts>>
  /\ UNCHANGED <<identityVars, searchVars, mintFormVars, mintVars>>

(* ----------------------------- mint form ------------------------------- *)
setParentName(w) ==
  /\ \E v \in w.parents : parentName' = v
  /\ UNCHANGED <<subLabel, targetAddress>>
  /\ UNCHANGED <<walletVars, identityVars, searchVars, mintVars>>

setSubLabel(w) ==
  /\ \E v \in w.labels : subLabel' = v
  /\ UNCHANGED <<parentName, targetAddress>>
  /\ UNCHANGED <<walletVars, identityVars, searchVars, mintVars>>

setTargetAddress(w) ==
  /\ \E v \in w.targets : targetAddress' = v
  /\ UNCHANGED <<parentName, subLabel>>
  /\ UNCHANGED <<walletVars, identityVars, searchVars, mintVars>>

useMyAddress ==
  /\ address # Null
  /\ targetAddress' = address
  /\ UNCHANGED <<parentName, subLabel>>
  /\ UNCHANGED <<walletVars, identityVars, searchVars, mintVars>>

\* the Manage Subnames button, rendered when searchResult.data.isMine
scrollToSubname ==
  /\ searchResult.set /\ ~searchResult.available /\ searchResult.data.isMine
  /\ parentName' = IF Truthy(searchResult.name) THEN searchResult.name ELSE parentName
  /\ UNCHANGED <<subLabel, targetAddress>>
  /\ UNCHANGED <<walletVars, identityVars, searchVars, mintVars>>

(* -------------------------- handleMintSubname -------------------------- *)
MaxMints == 2   \* handleMintSubname invocations the model can hold in flight

FreeMint == {i \in 1..MaxMints : mints[i].pc = "idle"}

cleanParent(m) == trim(toLowerCase(m.parentName))
cleanLabel(m) == trim(toLowerCase(m.subLabel))
cleanTarget(m) == trim(m.targetAddress)

\* `${cleanLabel}.${cleanParent}`
fullSubname(m) == cleanLabel(m) \o <<".">> \o cleanParent(m)

\* mutant: the generic message is preferred to the revert reason
MintErrorMessageFirst(err) ==
  IF Truthy(err.message) THEN err.message
  ELSE IF Truthy(err.reason) THEN err.reason
  ELSE <<"Minting failed.">>

\* err.reason || err.message || "Minting failed."
MintErrorMessage(err) ==
  IF Truthy(err.reason) THEN err.reason
  ELSE IF Truthy(err.message) THEN err.message
  ELSE <<"Minting failed.">>

ErrorStatus(err) == [type |-> "error", msg |-> MintErrorMessage(err), txHash |-> 0]

\* mutant: the button is not disabled while a mint is running
MintButtonDisabledFieldsOnly ==
  ~Truthy(subLabel) \/ ~Truthy(parentName) \/ ~Truthy(targetAddress)

\* the disabled attribute of the Issue Subname button
MintButtonDisabled ==
  isMinting \/ ~Truthy(subLabel) \/ ~Truthy(parentName) \/ ~Truthy(targetAddress)

\* the click: setMintStatus(null), setIsMinting(true), then getSigner is awaited
handleMintSubname_Click(w) ==
  /\ ~MintButtonDisabled
  /\ ethereum
  /\ FreeMint # {}
  /\ txCount < MaxTx
  /\ mintStatus' = NoStatus
  /\ isMinting' = TRUE
  /\ mints' = [mints EXCEPT ![Min(FreeMint)] =
       [MintIdle EXCEPT !.pc = "getSigner", !.parentName = parentName,
                        !.subLabel = subLabel, !.targetAddress = targetAddress,
                        !.address = address,
                        !.startChain = IF w.history THEN walletChain ELSE 0,
                        !.calls = <<Call("getSigner", <<>>)>>]]
  /\ UNCHANGED <<recentMints, txCount, clock>>
  /\ UNCHANGED <<walletVars, identityVars, searchVars, mintFormVars>>

\* the catch and finally blocks, entered with the error err
MintFails(i, m, err) ==
  /\ mintStatus' = ErrorStatus(err)
  /\ isMinting' = FALSE
  /\ mints' = [mints EXCEPT ![i] = [MintIdle EXCEPT !.ownerRead = m.ownerRead, !.thrown = err]]
  /\ UNCHANGED <<recentMints, txCount, clock>>

\* getSigner resolved; getNetwork is awaited
handleMintSubname_Signer(i) ==
  /\ mints[i].pc = "getSigner"
  /\ mints' = [mints EXCEPT ![i] =
       [@ EXCEPT !.pc = "getNetwork", !.calls = Append(@, Call("getNetwork", <<>>))]]
  /\ UNCHANGED <<isMinting, mintStatus, recentMints, txCount, clock>>
  /\ UNCHANGED <<walletVars, identityVars, searchVars, mintFormVars>>

\* mutant: the network check reads the chainId state of the page
MintCheckPageChain(m, currentNet) ==
  IF chainId # BASE_CHAIN_ID_DECIMAL
  THEN NewError(<<"Please switch to Base Mainnet.">>)
  ELSE IF ~Truthy(cleanParent(m)) \/ ~Truthy(cleanLabel(m)) \/ ~Truthy(cleanTarget(m))
  THEN NewError(<<"Missing fields.">>)
  ELSE IF ~isAddress(cleanTarget(m))
  THEN NewError(<<"Invalid address.">>)
  ELSE IF toNodeHashThrows(cleanParent(m))
  THEN NewError(<<"invalid ENS name">>)
  ELSE NoError

\* mutant: the target address is not validated
MintCheckNoAddress(m, currentNet) ==
  IF currentNet # BASE_CHAIN_ID_DECIMAL
  THEN NewError(<<"Please switch to Base Mainnet.">>)
  ELSE IF ~Truthy(cleanParent(m)) \/ ~Truthy(cleanLabel(m)) \/ ~Truthy(cleanTarget(m))
  THEN NewError(<<"Missing fields.">>)
  ELSE IF toNodeHashThrows(cleanParent(m))
  THEN NewError(<<"invalid ENS name">>)
  ELSE NoError

\* what the segment between getNetwork and registry.owner throws, NoError when
\* it reaches the owner read
MintCheck(m, currentNet) ==
  IF currentNet # BASE_CHAIN_ID_DECIMAL
  THEN NewError(<<"Please switch to Base Mainnet.">>)
  ELSE IF ~Truthy(cleanParent(m)) \/ ~Truthy(cleanLabel(m)) \/ ~Truthy(cleanTarget(m))
  THEN NewError(<<"Missing fields.">>)
  ELSE IF ~isAddress(cleanTarget(m))
  THEN NewError(<<"Invalid address.">>)
  ELSE IF toNodeHashThrows(cleanParent(m))
  THEN NewError(<<"invalid ENS name">>)
  ELSE NoError

\* getNetwork resolved: network check, validation, hashes, then owner is awaited
handleMintSubname_Network(i) ==
  /\ mints[i].pc = "getNetwork"
  /\ LET m == mints[i] IN
     IF MintCheck(m, walletChain) # NoError
     THEN MintFails(i, m, MintCheck(m, walletChain))
     ELSE /\ mints' = [mints EXCEPT ![i] =
               [m EXCEPT !.pc = "owner",
                         !.calls = Append(@, Call("registry.owner", <<toNodeHash(cleanParent(m))>>))]]
          /\ UNCHANGED <<isMinting, mintStatus, recentMints, txCount, clock>>
  /\ UNCHANGED <<walletVars, identityVars, searchVars, mintFormVars>>

\* mutant: the ownership check is skipped when no address is connected
NotOwnerWhenConnected(owner, a) == a # Null /\ ~EqIgnoreCase(a, owner)

\* owner.toLowerCase() !== address?.toLowerCase()
NotOwner(owner, a) == ~EqIgnoreCase(a, owner)

\* mutant: the label is hashed as typed, not lowercased and trimmed
SubnodeArgsRawLabel(m) ==
  <<toNodeHash(cleanParent(m)), id(m.subLabel), getAddress(cleanTarget(m))>>

\* the arguments handed to registry.setSubnodeOwner
SubnodeArgs(m) ==
  <<toNodeHash(cleanParent(m)), id(cleanLabel(m)), getAddress(cleanTarget(m))>>

\* registry.owner resolved: ownership check, then setSubnodeOwner is awaited
handleMintSubname_Owner(i, w) ==
  /\ mints[i].pc = "owner"
  /\ \E owner \in w.owners :
       LET m == [mints[i] EXCEPT !.ownerRead = owner] IN
       IF NotOwner(owner, m.address)
       THEN MintFails(i, m, NewError(<<"You don't own ">> \o cleanParent(m) \o <<".">>))
       ELSE /\ mints' = [mints EXCEPT ![i] =
                 [m EXCEPT !.pc = "setSubnodeOwner",
                           !.calls = Append(@, Call("registry.setSubnodeOwner", SubnodeArgs(m)))]]
            /\ UNCHANGED <<isMinting, mintStatus, recentMints, txCount, clock>>
  /\ UNCHANGED <<walletVars, identityVars, searchVars, mintFormVars>>

\* the record prepended to recentMints
MintedName(m, now) == [name |-> fullSubname(m), txHash |-> m.tx, timestamp |-> now]

\* mutant: the record is logged at submission, before the confirmation
handleMintSubname_SubmittedLogged(i) ==
  /\ mints[i].pc = "setSubnodeOwner"
  /\ txCount' = txCount + 1
  /\ mintStatus' = [type |-> "success",
                    msg |-> <<"Minting ">> \o fullSubname(mints[i]) \o <<"...">>,
                    txHash |-> txCount + 1]
  /\ mints' = [mints EXCEPT ![i] =
       [@ EXCEPT !.pc = "wait", !.tx = txCount + 1,
                 !.calls = Append(@, Call("tx.wait", <<>>))]]
  /\ recentMints' = <<MintedName([mints[i] EXCEPT !.tx = txCount + 1], clock)>> \o recentMints
  /\ UNCHANGED <<isMinting, clock>>
  /\ UNCHANGED <<walletVars, identityVars, searchVars, mintFormVars>>

\* mutant: no status is shown until the confirmation
handleMintSubname_SubmittedSilent(i) ==
  /\ mints[i].pc = "setSubnodeOwner"
  /\ txCount' = txCount + 1
  /\ mints' = [mints EXCEPT ![i] =
       [@ EXCEPT !.pc = "wait", !.tx = txCount + 1,
                 !.calls = Append(@, Call("tx.wait", <<>>))]]
  /\ UNCHANGED <<isMinting, mintStatus, recentMints, clock>>
  /\ UNCHANGED <<walletVars, identityVars, searchVars, mintFormVars>>

\* setSubnodeOwner resolved with the transaction: the submitted status, then
\* tx.wait is awaited
handleMintSubname_Submitted(i) ==
  /\ mints[i].pc = "setSubnodeOwner"
  /\ txCount' = txCount + 1
  /\ mintStatus' = [type |-> "success",
                    msg |-> <<"Minting ">> \o fullSubname(mints[i]) \o <<"...">>,
                    txHash |-> txCount + 1]
  /\ mints' = [mints EXCEPT ![i] =
       [@ EXCEPT !.pc = "wait", !.tx = txCount + 1,
                 !.calls = Append(@, Call("tx.wait", <<>>))]]
  /\ UNCHANGED <<isMinting, recentMints, clock>>
  /\ UNCHANGED <<walletVars, identityVars, searchVars, mintFormVars>>

\* mutant: the record is put at the end of the list
handleMintSubname_ConfirmedAppends(i, w) ==
  /\ mints[i].pc = "wait"
  /\ mintStatus' = [type |-> "success",
                    msg |-> <<"Successfully minted ">> \o fullSubname(mints[i]) \o <<"!">>,
                    txHash |-> mints[i].tx]
  /\ \E now \in clock..w.clockMax :
       /\ clock' = now
       /\ recentMints' = recentMints \o <<MintedName(mints[i], now)>>
  /\ fetchIdentityData(mints[i].address, w)
  /\ subLabel' = <<>>
  /\ isMinting' = FALSE
  /\ mints' = [mints EXCEPT ![i] = [MintIdle EXCEPT !.ownerRead = mints[i].ownerRead]]
  /\ UNCHANGED <<parentName, targetAddress, txCount>>
  /\ UNCHANGED <<walletVars, searchVars>>

\* tx.wait resolved: the confirmed status, the log record, the identity
\* refresh, the label field cleared, and the finally block
handleMintSubname_Confirmed(i, w) ==
  /\ mints[i].pc = "wait"
  /\ mintStatus' = [type |-> "success",
                    msg |-> <<"Successfully minted ">> \o fullSubname(mints[i]) \o <<"!">>,
                    txHash |-> mints[i].tx]
  /\ \E now \in clock..w.clockMax :
       /\ clock' = now
       /\ recentMints' = <<MintedName(mints[i], now)>> \o recentMints
  /\ fetchIdentityData(mints[i].address, w)
  /\ subLabel' = <<>>
  /\ isMinting' = FALSE
  /\ mints' = [mints EXCEPT ![i] = [MintIdle EXCEPT !.ownerRead = mints[i].ownerRead]]
  /\ UNCHANGED <<parentName, targetAddress, txCount>>
  /\ UNCHANGED <<walletVars, searchVars>>

\* any awaited call of the mint rejected
handleMintSubname_Rejects(i, w) ==
  /\ mints[i].pc \in {"getSigner", "getNetwork", "owner", "setSubnodeOwner", "wait"}
  /\ \E err \in w.errors : MintFails(i, mints[i], err)
  /\ UNCHANGED <<walletVars, identityVars, searchVars, mintFormVars>>

(* ----------------------------- handleSearch ---------------------------- *)
RESOLUTION_FAILED == <<"Resolution failed. Please check your connection.">>

MaxSearchStarts == 3   \* searches started in a world that keeps the history

\* the number the next search gets
NextStarted(w) ==
  IF w.history THEN 1 + Max({searches[k].started : k \in 1..MaxSearches}) ELSE 0

FreeSearch(w) == {i \in 1..w.searchCap : searches[i].pc = "idle"}

\* mutant: the parent domain is not appended
SearchQueryNoSuffix(term) == toLowerCase(trim(term))

\* the name handleSearch looks up for the search term
SearchQuery(term) ==
  LET query == toLowerCase(trim(term))
  IN  IF ~includes(query, ".") THEN query \o BASE_SUFFIX ELSE query

\* handleSearch up to its first await (or to its end, when toNodeHash throws),
\* called from a render in which searchTerm is term
handleSearch(term, w) ==
  IF ~Truthy(toLowerCase(trim(term)))
  THEN UNCHANGED <<isSearching, searchResult, searchError, searches>>
  ELSE IF toNodeHashThrows(SearchQuery(term))
  THEN /\ isSearching' = FALSE
       /\ searchError' = RESOLUTION_FAILED
       /\ searchResult' = NoResult
       /\ UNCHANGED searches
  ELSE /\ FreeSearch(w) # {}
       /\ NextStarted(w) <= MaxSearchStarts
       /\ isSearching' = TRUE
       /\ searchError' = Null
       /\ searchResult' = NoResult
       /\ searches' = [searches EXCEPT ![Min(FreeSearch(w))] =
            [SearchIdle EXCEPT !.pc = "addr", !.query = SearchQuery(term), !.address = address,
               !.started = NextStarted(w),
               !.calls = <<Call("resolver.addr", <<toNodeHash(SearchQuery(term))>>)>>]]

setSearchTerm(w) ==
  /\ \E v \in w.terms : searchTerm' = v
  /\ UNCHANGED <<isSearching, searchResult, searchError, searches>>
  /\ UNCHANGED <<walletVars, identityVars, mintFormVars, mintVars>>

\* the form is submitted; the submit button is disabled while isSearching
handleSearch_Submit(w) ==
  /\ ~isSearching
  /\ handleSearch(searchTerm, w)
  /\ UNCHANGED searchTerm
  /\ UNCHANGED <<walletVars, identityVars, mintFormVars, mintVars>>

\* a trending tag is clicked: setSearchTerm(tag); handleSearch()
TagClick(w) ==
  /\ \E tag \in w.tags : searchTerm' = tag
  /\ handleSearch(searchTerm, w)
  /\ UNCHANGED <<walletVars, identityVars, mintFormVars, mintVars>>

\* mutant: a search that finds the name available fills the mint form with it
handleSearch_AddrFillsParent(i, w) ==
  /\ searches[i].pc = "addr"
  /\ \E resolvedAddress \in w.addrs :
       LET r == [searches[i] EXCEPT !.resolvedAddress = resolvedAddress] IN
       IF ~Truthy(resolvedAddress) \/ resolvedAddress = ZeroAddress
       THEN /\ searchResult' = [NoResult EXCEPT !.set = TRUE, !.name = r.query, !.available = TRUE]
            /\ isSearching' = FALSE
            /\ parentName' = r.query
            /\ searches' = [searches EXCEPT ![i] =
                 SearchEnded(w, r, [SearchIdle EXCEPT !.resolvedAddress = resolvedAddress])]
       ELSE /\ searches' = [searches EXCEPT ![i] =
                 [r EXCEPT !.pc = "owner",
                           !.calls = Append(@, Call("registry.owner", <<toNodeHash(r.query)>>))]]
            /\ UNCHANGED <<isSearching, searchResult, parentName>>
  /\ UNCHANGED <<searchTerm, searchError>>
  /\ UNCHANGED <<walletVars, identityVars, subLabel, targetAddress, mintVars>>

\* mutant: a search writes its result only when no later search was started
handleSearch_AddrNewestOnly(i, w) ==
  /\ searches[i].pc = "addr"
  /\ \E resolvedAddress \in w.addrs :
       LET r == [searches[i] EXCEPT !.resolvedAddress = resolvedAddress] IN
       IF ~Truthy(resolvedAddress) \/ resolvedAddress = ZeroAddress
       THEN /\ searchResult' =
                 IF \E k \in 1..MaxSearches : searches[k].started > r.started
                 THEN searchResult
                 ELSE [NoResult EXCEPT !.set = TRUE, !.name = r.query, !.available = TRUE]
            /\ isSearching' = FALSE
            /\ searches' = [searches EXCEPT ![i] =
                 SearchEnded(w, r, [SearchIdle EXCEPT !.resolvedAddress = resolvedAddress])]
       ELSE /\ searches' = [searches EXCEPT ![i] =
                 [r EXCEPT !.pc = "owner",
                           !.calls = Append(@, Call("registry.owner", <<toNodeHash(r.query)>>))]]
            /\ UNCHANGED <<isSearching, searchResult>>
  /\ UNCHANGED <<searchTerm, searchError>>
  /\ UNCHANGED <<walletVars, identityVars, mintFormVars, mintVars>>

\* resolver.addr resolved
handleSearch_Addr(i, w) ==
  /\ searches[i].pc = "addr"
  /\ \E resolvedAddress \in w.addrs :
       LET r == [searches[i] EXCEPT !.resolvedAddress = resolvedAddress] IN
       IF ~Truthy(resolvedAddress) \/ resolvedAddress = ZeroAddress
       THEN /\ searchResult' = [NoResult EXCEPT !.set = TRUE, !.name = r.query, !.available = TRUE]
            /\ isSearching' = FALSE
            /\ searches' = [searches EXCEPT ![i] =
                 SearchEnded(w, r, [SearchIdle EXCEPT !.resolvedAddress = resolvedAddress])]
       ELSE /\ searches' = [searches EXCEPT ![i] =
                 [r EXCEPT !.pc = "owner",
                           !.calls = Append(@, Call("registry.owner", <<toNodeHash(r.query)>>))]]
            /\ UNCHANGED <<isSearching, searchResult>>
  /\ UNCHANGED <<searchTerm, searchError>>
  /\ UNCHANGED <<walletVars, identityVars, mintFormVars, mintVars>>

\* mutant: a rejected resolver.addr is taken as "no address"
handleSearch_AddrRejectsAvailable(i, w) ==
  /\ searches[i].pc = "addr"
  /\ searchResult' = [NoResult EXCEPT !.set = TRUE, !.name = searches[i].query, !.available = TRUE]
  /\ isSearching' = FALSE
  /\ searches' = [searches EXCEPT ![i] =
       SearchEnded(w, searches[i], [SearchIdle EXCEPT !.resolvedAddress = Rejected])]
  /\ UNCHANGED <<searchTerm, searchError>>
  /\ UNCHANGED <<walletVars, identityVars, mintFormVars, mintVars>>

\* resolver.addr rejected: the catch and finally blocks
handleSearch_AddrRejects(i, w) ==
  /\ searches[i].pc = "addr"
  /\ searchError' = RESOLUTION_FAILED
  /\ isSearching' = FALSE
  /\ searches' = [searches EXCEPT ![i] =
       SearchEnded(w, searches[i], [SearchIdle EXCEPT !.resolvedAddress = Rejected])]
  /\ UNCHANGED <<searchTerm, searchResult>>
  /\ UNCHANGED <<walletVars, identityVars, mintFormVars, mintVars>>

\* mutant: a rejected text read empties the other two as well
TextsAllOrNothing(replies) ==
  IF Rejected \in {replies[k] : k \in 1..Len(replies)}
  THEN [k \in 1..Len(replies) |-> <<>>]
  ELSE replies

\* Promise.all over the three reads, each with its own catch
TextsSettled(replies) == [k \in 1..Len(replies) |-> OrElse(replies[k], <<>>)]

\* registry.owner settled (a rejection is replaced by the zero address); the
\* three text records are requested together
handleSearch_Owner(i, w) ==
  /\ searches[i].pc = "owner"
  /\ \E reply \in w.owners \cup {Rejected} :
       searches' = [searches EXCEPT ![i] =
         [@ EXCEPT !.pc = "text", !.ownerReply = reply,
                   !.owner = OrElse(reply, ZeroAddress),
                   !.calls = @ \o << Call("resolver.text", <<toNodeHash(searches[i].query), <<"avatar">> >>),
                                     Call("resolver.text", <<toNodeHash(searches[i].query), <<"com.twitter">> >>),
                                     Call("resolver.text", <<toNodeHash(searches[i].query), <<"url">> >>) >>]]
  /\ UNCHANGED <<searchTerm, isSearching, searchResult, searchError>>
  /\ UNCHANGED <<walletVars, identityVars, mintFormVars, mintVars>>

\* mutant: the addresses are compared as written
IsMineExact(a, owner, resolvedAddress) == a # Null /\ (a = owner \/ a = resolvedAddress)

\* address?.toLowerCase() === owner.toLowerCase() || address?.toLowerCase() === resolvedAddress.toLowerCase()
IsMine(a, owner, resolvedAddress) == EqIgnoreCase(a, owner) \/ EqIgnoreCase(a, resolvedAddress)

\* the three text reads settled (each rejection is replaced by ""): the
\* profile is assembled, then the finally block
handleSearch_Texts(i, w) ==
  /\ searches[i].pc = "text"
  /\ \E avatarReply \in w.avatars \cup {<<>>, Rejected},
        twitterReply \in w.twitters \cup {<<>>, Rejected},
        urlReply \in w.urls \cup {<<>>, Rejected} :
       LET r == searches[i]
           replies == <<avatarReply, twitterReply, urlReply>>
           settled == TextsSettled(replies)
       IN  /\ searchResult' =
                [set |-> TRUE, name |-> r.query, available |-> FALSE,
                 data |-> [owner |-> r.owner, resolver |-> RESOLVER_ADDRESS,
                           avatar |-> resolveAvatarUrl(r.query, settled[1]),
                           twitter |-> settled[2], url |-> settled[3],
                           address |-> r.resolvedAddress,
                           isMine |-> IsMine(r.address, r.owner, r.resolvedAddress)]]
           /\ searches' = [searches EXCEPT ![i] =
                SearchEnded(w, r, [SearchIdle EXCEPT !.ownerReply = r.ownerReply,
                                                     !.texts = replies])]
  /\ isSearching' = FALSE
  /\ UNCHANGED <<searchTerm, searchError>>
  /\ UNCHANGED <<walletVars, identityVars, mintFormVars, mintVars>>

(* -------------------------- specifications ----------------------------- *)
\* the page has just been mounted
Init(w) ==
  /\ ethereum \in BOOLEAN
  /\ walletAccount \in (IF ethereum THEN w.accounts \cup {Null} ELSE {Null})
  /\ walletChain \in (IF ethereum THEN w.chains ELSE {BASE_CHAIN_ID_DECIMAL})
  /\ mountChainId = (IF ethereum THEN {walletChain} ELSE {})
  /\ mountAccounts = (IF ethereum THEN {walletAccount} ELSE {})
  /\ connect = ConnectIdle
  /\ listeners = (IF ethereum THEN Handlers(1) ELSE Handlers(0))
  /\ address = Null
  /\ chainId = 0
  /\ userProfile = NoProfile
  /\ rootNameBalance = 0
  /\ shownFor = NoneShown
  /\ isRefreshing = FALSE
  /\ refreshes = [i \in 1..MaxRefreshes |-> RefreshIdle]
  /\ searchTerm = <<>>
  /\ isSearching = FALSE
  /\ searchResult = NoResult
  /\ searchError = Null
  /\ searches = [i \in 1..MaxSearches |-> SearchIdle]
  /\ parentName = <<>>
  /\ subLabel = <<>>
  /\ targetAddress = <<>>
  /\ isMinting = FALSE
  /\ mintStatus = NoStatus
  /\ recentMints = <<>>
  /\ mints = [i \in 1..MaxMints |-> MintIdle]
  /\ txCount = 0
  /\ clock = 0

\* the page is mounted, both mount replies have arrived and the identity
\* refresh they started has ended (no primary name, no root name)
InitSession(w) ==
  /\ ethereum = TRUE
  /\ walletAccount \in w.accounts \cup {Null}
  /\ walletChain \in w.chains
  /\ mountChainId = {}
  /\ mountAccounts = {}
  /\ connect = ConnectIdle
  /\ listeners = Handlers(1)
  /\ address = walletAccount
  /\ chainId = walletChain
  /\ userProfile = NoProfile
  /\ rootNameBalance = 0
  /\ shownFor = IF w.history THEN ShownBoth(walletAccount) ELSE NoneShown
  /\ isRefreshing = FALSE
  /\ refreshes = [i \in 1..MaxRefreshes |-> RefreshIdle]
  /\ searchTerm = <<>>
  /\ isSearching = FALSE
  /\ searchResult = NoResult
  /\ searchError = Null
  /\ searches = [i \in 1..MaxSearches |-> SearchIdle]
  /\ parentName = <<>>
  /\ subLabel = <<>>
  /\ targetAddress = <<>>
  /\ isMinting = FALSE
  /\ mintStatus = NoStatus
  /\ recentMints = <<>>
  /\ mints = [i \in 1..MaxMints |-> MintIdle]
  /\ txCount = 0
  /\ clock = 0

MountNext(w) ==
  \/ Mount_ChainId
  \/ Mount_Accounts(w)

WalletEvents(w) ==
  \/ handleChainChanged(w)
  \/ handleAccountsChanged(w)

ConnectNext(w) ==
  \/ connectWallet_Click
  \/ connectWallet_Accounts(w)
  \/ connectWallet_Network(w)
  \/ connectWallet_Rejects
  \/ switchToBase

\* the refresh of an address that has no primary name
IdentityPlain(w) ==
  \E i \in 1..MaxRefreshes :
    \/ fetchIdentityData_Lookup(i, w)
    \/ fetchIdentityData_Balance(i, w)
    \/ fetchIdentityData_Rejects(i, w)

\* the steps of a refresh that found a primary name
IdentityNamed(w) ==
  \E i \in 1..MaxRefreshes :
    \/ fetchIdentityData_Resolver(i, w)
    \/ fetchIdentityData_Avatar(i, w)

MintForm(w) ==
  \/ setParentName(w)
  \/ setSubLabel(w)
  \/ setTargetAddress(w)
  \/ useMyAddress

MintNext(w) ==
  \/ handleMintSubname_Click(w)
  \/ \E i \in 1..MaxMints :
       \/ handleMintSubname_Signer(i)
       \/ handleMintSubname_Network(i)
       \/ handleMintSubname_Owner(i, w)
       \/ handleMintSubname_Submitted(i)
       \/ handleMintSubname_Confirmed(i, w)
       \/ handleMintSubname_Rejects(i, w)

\* the searches up to the availability answer
SearchStart(w) ==
  \/ setSearchTerm(w)
  \/ handleSearch_Submit(w)
  \/ TagClick(w)
  \/ \E i \in 1..MaxSearches :
       \/ handleSearch_Addr(i, w)
       \/ handleSearch_AddrRejects(i, w)

\* the profile of a taken name
SearchProfile(w) ==
  \/ \E i \in 1..MaxSearches :
       \/ handleSearch_Owner(i, w)
       \/ handleSearch_Texts(i, w)
  \/ scrollToSubname

\* every operation of an established session in a small world: one account,
\* one valid form, names that are all available, one invocation of a handler
\* at a time
Next ==
  \/ WalletEvents(SmallWorld)
  \/ ConnectNext(SmallWorld)
  \/ RefreshClick(SmallWorld)
  \/ IdentityPlain(SmallWorld)
  \/ MintForm(SmallWorld)
  \/ MintNext(SmallWorld)
  \/ SearchStart(SmallWorld)

Spec == InitSession(SmallWorld) /\ [][Next]_vars

\* the wallet session from the mount of the page
NextWallet ==
  \/ MountNext(MintWorld)
  \/ WalletEvents(MintWorld)
  \/ ConnectNext(MintWorld)
  \/ RefreshClick(MintWorld)
  \/ IdentityPlain(MintWorld)

SpecWallet == Init(MintWorld) /\ [][NextWallet]_vars

\* the mint workflow in an established session: the form (edited between
\* mints), the mint, the wallet's account and chain changes, and the identity
\* refresh they start
NextMint ==
  \/ WalletEvents(MintWorld)
  \/ IdentityPlain(MintWorld)
  \/ (~isMinting /\ MintForm(MintWorld))
  \/ MintNext(MintWorld)

SpecMint == InitSession(MintWorld) /\ [][NextMint]_vars

\* the search workflow in an established session
NextSearch ==
  \/ SearchStart(SearchWorld)
  \/ SearchProfile(SearchWorld)

SpecSearch == InitSession(SearchWorld) /\ [][NextSearch]_vars

\* the identity refreshes of a session: of an address with or without a
\* primary name, started by the refresh button or by an account change
NextIdentity ==
  \/ handleAccountsChanged(IdentityWorld)
  \/ RefreshClick(IdentityWorld)
  \/ IdentityPlain(IdentityWorld)
  \/ IdentityNamed(IdentityWorld)

SpecIdentity == InitSession(IdentityWorld) /\ [][NextIdentity]_vars

\* the wallet session of the greeter variant, from its page load
InitGreeter(w) ==
  /\ ethereum = TRUE
  /\ walletAccount \in w.accounts \cup {Null}
  /\ walletChain \in w.chains
  /\ mountChainId = {}
  /\ mountAccounts = {}
  /\ connect = ConnectIdle
  /\ listeners = Handlers(0)
  /\ address = Null
  /\ chainId = 0
  /\ userProfile = NoProfile
  /\ rootNameBalance = 0
  /\ shownFor = NoneShown
  /\ isRefreshing = FALSE
  /\ refreshes = [i \in 1..MaxRefreshes |-> RefreshIdle]
  /\ searchTerm = <<>>
  /\ isSearching = FALSE
  /\ searchResult = NoResult
  /\ searchError = Null
  /\ searches = [i \in 1..MaxSearches |-> SearchIdle]
  /\ parentName = <<>>
  /\ subLabel = <<>>
  /\ targetAddress = <<>>
  /\ isMinting = FALSE
  /\ mintStatus = NoStatus
  /\ recentMints = <<>>
  /\ mints = [i \in 1..MaxMints |-> MintIdle]
  /\ txCount = 0
  /\ clock = 0

NextGreeter ==
  \/ Greeter_connectWallet_Click
  \/ Greeter_connectWallet_Accounts(MintWorld)
  \/ Greeter_connectWallet_Network
  \/ Greeter_connectWallet_Signer
  \/ Greeter_connectWallet_Rejects
  \/ Greeter_accountsChanged(MintWorld)
  \/ Greeter_chainChanged(MintWorld)

SpecGreeter == InitGreeter(MintWorld) /\ [][NextGreeter]_vars

\* overlapping searches beside the identity refresh of the session
NextRace ==
  \/ SearchStart(RaceWorld)
  \/ RefreshClick(RaceWorld)
  \/ IdentityPlain(RaceWorld)

SpecRace == InitSession(RaceWorld) /\ [][NextRace]_vars

\* the mint from the page load on, beside the mount replies and the wallet's
\* chain changes
NextChain ==
  \/ MountNext(ChainWorld)
  \/ handleChainChanged(ChainWorld)
  \/ IdentityPlain(ChainWorld)
  \/ MintForm(ChainWorld)
  \/ MintNext(ChainWorld)

SpecChain == Init(ChainWorld) /\ [][NextChain]_vars

\* the search of a taken name beside the wallet's account changes
NextMine ==
  \/ handleAccountsChanged(MineWorld)
  \/ IdentityPlain(MineWorld)
  \/ SearchStart(MineWorld)
  \/ SearchProfile(MineWorld)

SpecMine == InitSession(MineWorld) /\ [][NextMine]_vars

\* the mints of plain and of dotted labels under one parent
NextLabels ==
  \/ MintForm(DottedWorld)
  \/ MintNext(DottedWorld)
  \/ IdentityPlain(DottedWorld)

SpecLabels == InitSession(DottedWorld) /\ [][NextLabels]_vars

\* the steps in which a call that invocation i awaits rejects or resolves
SearchSettles(i, w) ==
  \/ handleSearch_AddrRejects(i, w)
  \/ handleSearch_Addr(i, w)

RefreshSettles(i, w) ==
  \/ fetchIdentityData_Rejects(i, w)
  \/ fetchIdentityData_Lookup(i, w)
  \/ fetchIdentityData_Balance(i, w)

MintSettles(i, w) ==
  \/ handleMintSubname_Rejects(i, w)
  \/ handleMintSubname_Signer(i)
  \/ handleMintSubname_Network(i)
  \/ handleMintSubname_Owner(i, w)
  \/ handleMintSubname_Submitted(i)
  \/ handleMintSubname_Confirmed(i, w)

\* the three operations side by side in an established session
NextLive ==
  \/ RefreshClick(SmallWorld)
  \/ IdentityPlain(SmallWorld)
  \/ MintForm(SmallWorld)
  \/ MintNext(SmallWorld)
  \/ SearchStart(SmallWorld)

\* every call that an invocation awaits resolves or rejects in the end
CallsSettle ==
  /\ \A i \in 1..MaxSearches : WF_vars(SearchSettles(i, SmallWorld))
  /\ \A i \in 1..MaxRefreshes : WF_vars(RefreshSettles(i, SmallWorld))
  /\ \A i \in 1..MaxMints : WF_vars(MintSettles(i, SmallWorld))

SpecLive == InitSession(SmallWorld) /\ [][NextLive]_vars /\ CallsSettle

\* the searches of one name, with every way its profile reads can settle
NextProfile ==
  \/ SearchStart(ProfileWorld)
  \/ SearchProfile(ProfileWorld)

SpecProfile == InitSession(ProfileWorld) /\ [][NextProfile]_vars

(* ------------------------------ properties ----------------------------- *)
InFlight == {i \in 1..MaxMints : mints[i].pc # "idle"}

\* the positions of the calls of fn among the calls a mint has made
CallsOf(m, fn) == {k \in 1..Len(m.calls) : m.calls[k].fn = fn}

RegistryCalls(m) == CallsOf(m, "registry.owner") \cup CallsOf(m, "registry.setSubnodeOwner")

\* the step of mint i in which registry.owner resolves
OwnerAnswered(i) == mints[i].pc = "owner" /\ mints'[i].ownerRead # Null

\* the step in which mint i ends
MintEnds(i) == mints[i].pc # "idle" /\ mints'[i].pc = "idle"

\* the step in which the confirmation wait of mint i completes successfully
WaitCompletes(i) == mints[i].pc = "wait" /\ mints'[i].pc = "idle" /\ mintStatus'.type = "success"

NormalizedName(m) ==
  trim(toLowerCase(m.subLabel)) \o <<".">> \o trim(toLowerCase(m.parentName))

\* C1: when the owner that registry.owner returns differs, ignoring case, from
\* the address the handler holds (or no address is connected), the mint ends
\* in that step with the error "You don't own <normalized parent>." and has
\* made no setSubnodeOwner call; and a mint that has called setSubnodeOwner
\* read an owner equal to its address.
C1_OwnershipMismatchFails ==
  /\ [][\A i \in 1..MaxMints :
          (OwnerAnswered(i)
            /\ (mints[i].address = Null
                 \/ toLowerCase(mints'[i].ownerRead) # toLowerCase(mints[i].address)))
          => /\ mints'[i].pc = "idle"
             /\ mintStatus' = [type |-> "error",
                               msg |-> <<"You don't own ">> \o trim(toLowerCase(mints[i].parentName)) \o <<".">>,
                               txHash |-> 0]
             /\ CallsOf(mints[i], "registry.setSubnodeOwner") = {}]_vars
  /\ [](\A i \in 1..MaxMints :
          CallsOf(mints[i], "registry.setSubnodeOwner") # {}
          => /\ mints[i].address # Null
             /\ toLowerCase(mints[i].ownerRead) = toLowerCase(mints[i].address))

\* a mint has ended on the ownership error for the parent " M.eth"
C1_Witness ==
  /\ mints[1].pc = "idle"
  /\ mints[1].ownerRead # Null
  /\ mintStatus = [type |-> "error", msg |-> <<"You don't own ", "m", ".", "eth", ".">>, txHash |-> 0]

\* C2: recentMints changes only in the step in which the confirmation wait of
\* a mint completes successfully; every other step of every operation leaves
\* it unchanged.
C2_LogChangesOnlyOnConfirmation ==
  [][recentMints' # recentMints => \E i \in 1..MaxMints : WaitCompletes(i)]_vars

\* the log holds a record while a later mint has failed, a search has ended
\* and the wallet is disconnected
C2_Witness ==
  /\ Len(recentMints) = 1
  /\ mintStatus.type = "error"
  /\ searchResult.set
  /\ address = Null

\* C3: a confirmed mint puts one record in front of the unchanged earlier
\* list, with the normalized name and the hash of its transaction; the list
\* is ordered most recent confirmation first.
C3_ConfirmedMintPrepends ==
  /\ [][\A i \in 1..MaxMints :
          WaitCompletes(i)
          => /\ recentMints' # <<>>
             /\ Tail(recentMints') = recentMints
             /\ Head(recentMints').name = NormalizedName(mints[i])
             /\ Head(recentMints').txHash = mints[i].tx]_vars
  /\ [](\A j, k \in 1..Len(recentMints) :
          j < k => /\ recentMints[j].txHash > recentMints[k].txHash
                   /\ recentMints[j].timestamp >= recentMints[k].timestamp)

\* two mints of the same name are confirmed: two records, the later in front
C3_Witness ==
  /\ Len(recentMints) = 2
  /\ recentMints[1].name = <<"s", ".", "m", ".", "eth">>
  /\ recentMints[2].name = <<"s", ".", "m", ".", "eth">>
  /\ recentMints[1].txHash = 2

\* C4: a mint whose owner read matches its address calls setSubnodeOwner in
\* that step, and a mint calls it at most once, always with the node of the
\* normalized parent, the hash of the normalized label and the trimmed target
\* address.
C4_SubnodeCallOnceWithArgs ==
  /\ [][\A i \in 1..MaxMints :
          (OwnerAnswered(i) /\ mints[i].address # Null
             /\ toLowerCase(mints'[i].ownerRead) = toLowerCase(mints[i].address))
          => Cardinality(CallsOf(mints'[i], "registry.setSubnodeOwner")) = 1]_vars
  /\ [](\A i \in 1..MaxMints :
          /\ Cardinality(CallsOf(mints[i], "registry.setSubnodeOwner")) <= 1
          /\ mints[i].pc \in {"setSubnodeOwner", "wait"}
               => Cardinality(CallsOf(mints[i], "registry.setSubnodeOwner")) = 1
          /\ \A k \in CallsOf(mints[i], "registry.setSubnodeOwner") :
               /\ Len(mints[i].calls[k].args) = 3
               /\ mints[i].calls[k].args[1] = toNodeHash(trim(toLowerCase(mints[i].parentName)))
               /\ mints[i].calls[k].args[2] = id(trim(toLowerCase(mints[i].subLabel)))
               /\ toLowerCase(mints[i].calls[k].args[3]) = toLowerCase(trim(mints[i].targetAddress)))

\* the mint of " M.eth", "S ", " 0xA1" waits for its confirmation
C4_Witness ==
  \E i \in 1..MaxMints :
    /\ mints[i].pc = "wait"
    /\ mints[i].parentName = <<" ", "M", ".", "eth">>
    /\ mints[i].subLabel = <<"S", " ">>
    /\ mints[i].calls[Len(mints[i].calls) - 1] =
         Call("registry.setSubnodeOwner",
              << FoldNode(FoldNode(ZeroHash, id(<<"eth">>)), id(<<"m">>)), id(<<"s">>), <<"0x", "A", "1">> >>)

\* the inputs the validation rejects
InvalidMintInput(m) ==
  \/ trim(toLowerCase(m.parentName)) = <<>>
  \/ trim(toLowerCase(m.subLabel)) = <<>>
  \/ trim(m.targetAddress) = <<>>
  \/ ~isAddress(trim(m.targetAddress))

\* C5: a mint started with an empty parent, label or target or an invalid
\* target ends with a validation error, having made no network call.
C5_ValidationBeforeAnyCall ==
  [][\A i \in 1..MaxMints :
       (MintEnds(i) /\ InvalidMintInput(mints[i]))
       => /\ mintStatus'.type = "error"
          /\ mintStatus'.msg \in {<<"Missing fields.">>, <<"Invalid address.">>}
          /\ mints[i].calls = <<>>]_vars

C7_OneMintInFlight ==
  /\ Cardinality(InFlight) <= 1
  /\ InFlight # {} => isMinting

\* a mint is in flight while the three fields are filled in: only isMinting
\* keeps the button disabled
C7_Witness ==
  /\ InFlight # {}
  /\ Truthy(parentName) /\ Truthy(subLabel) /\ Truthy(targetAddress)

ConfirmedStatus(st) == st.type = "success" /\ startsWith(st.msg, <<"Successfully minted ">>)

\* C8: while a mint waits for its confirmation the status is the submitted
\* status with the hash of its transaction, and the log holds no record of
\* that transaction; the confirmed status and the log record appear only in
\* the step in which the wait completes.
C8_SubmittedBeforeConfirmed ==
  /\ [](\A i \in 1..MaxMints :
          mints[i].pc = "wait"
          => /\ mints[i].tx # 0
             /\ mintStatus = [type |-> "success",
                              msg |-> <<"Minting ">> \o NormalizedName(mints[i]) \o <<"...">>,
                              txHash |-> mints[i].tx]
             /\ \A k \in 1..Len(recentMints) : recentMints[k].txHash # mints[i].tx)
  /\ [][((ConfirmedStatus(mintStatus') /\ mintStatus' # mintStatus) \/ recentMints' # recentMints)
          => \E i \in 1..MaxMints :
               /\ mints[i].pc = "wait" /\ mints'[i].pc = "idle"
               /\ mintStatus'.txHash = mints[i].tx
               /\ ConfirmedStatus(mintStatus')
               /\ Head(recentMints').txHash = mints[i].tx]_vars

\* the second transaction is submitted and not yet confirmed
C8_Witness ==
  \E i \in 1..MaxMints :
    /\ mints[i].pc = "wait"
    /\ mints[i].tx = 2
    /\ mintStatus.txHash = 2
    /\ Len(recentMints) = 1

\* C9: a mint that ends otherwise than by a completed confirmation ends with
\* the error status whose message is the error's reason, else its message,
\* else "Minting failed."
C9_ErrorMessagePriority ==
  /\ [][\A i \in 1..MaxMints :
          (MintEnds(i) /\ ~WaitCompletes(i))
          => mints'[i].thrown # NoError /\ mintStatus'.type = "error"]_vars
  /\ [](\A i \in 1..MaxMints :
          (mints[i].pc = "idle" /\ mints[i].thrown # NoError)
          => mintStatus =
               [type |-> "error",
                msg |-> IF mints[i].thrown.reason # <<>> THEN mints[i].thrown.reason
                        ELSE IF mints[i].thrown.message # <<>> THEN mints[i].thrown.message
                        ELSE <<"Minting failed.">>,
                txHash |-> 0])

\* a rejection that carries a reason and a message has ended a mint after
\* its transaction was submitted
C9_Witness ==
  /\ mints[1].pc = "idle"
  /\ mints[1].thrown.reason # <<>> /\ mints[1].thrown.message # <<>>
  /\ mintStatus.type = "error"
  /\ txCount = 1
  /\ recentMints = <<>>

\* lowercase(trim(q)), with ".base.eth" appended when it holds no dot
NormalizedQuery(q) ==
  IF includes(toLowerCase(trim(q)), ".") THEN toLowerCase(trim(q))
  ELSE toLowerCase(trim(q)) \o <<".", "base", ".", "eth">>

\* C10: a search that starts looks up n = NormalizedQuery(searchTerm) with
\* the single call resolver.addr(node(n)); when that call returns the null
\* address the search ends in that step with {available: true, name: n},
\* having made no other call.
C10_AvailableName ==
  /\ [][\A i \in 1..MaxSearches :
          (searches[i].pc = "idle" /\ searches'[i].pc = "addr")
          => /\ searches'[i].query = NormalizedQuery(searchTerm)
             /\ searches'[i].calls =
                  <<Call("resolver.addr", <<toNodeHash(NormalizedQuery(searchTerm))>>)>>]_vars
  /\ [][\A i \in 1..MaxSearches :
          (searches[i].pc = "addr" /\ searches'[i].resolvedAddress = ZeroAddress)
          => /\ searches'[i].pc = "idle"
             /\ searches'[i].calls = <<>>
             /\ Len(searches[i].calls) = 1
             /\ searchResult' = [set |-> TRUE, name |-> searches[i].query,
                                 available |-> TRUE, data |-> NoData]]_vars

\* the term " A" was searched and found available as a.base.eth
C10_Witness ==
  /\ searchResult.set /\ searchResult.available
  /\ searchResult.name = <<"a", ".", "base", ".", "eth">>
  /\ searches[1].resolvedAddress = ZeroAddress

\* the step in which resolver.addr of search i rejects
AddrRejected(i) == searches[i].pc = "addr" /\ searches'[i].resolvedAddress = Rejected

\* the step in which search i ends with the profile of a taken name
ProfileAssembled(i) == searches[i].pc = "text" /\ searches'[i].pc = "idle"

SearchCallsOf(r, fn) == {k \in 1..Len(r.calls) : r.calls[k].fn = fn}

\* C11: when resolver.addr rejects, the search reports the name as available.
C11_FailedAddrIsAvailable ==
  [][\A i \in 1..MaxSearches :
       AddrRejected(i) => searchResult'.set /\ searchResult'.available]_vars

\* C12: when resolver.addr rejects, the search ends in that step with the
\* resolution-failed error, sets no search result and has made no
\* registry.owner or resolver.text call.
C12_FailedAddrAborts ==
  [][\A i \in 1..MaxSearches :
       AddrRejected(i)
       => /\ searches'[i].pc = "idle"
          /\ searchError' = <<"Resolution failed. Please check your connection.">>
          /\ searchResult' = searchResult
          /\ ~searchResult'.set
          /\ SearchCallsOf(searches[i], "registry.owner") = {}
          /\ SearchCallsOf(searches[i], "resolver.text") = {}
          /\ Len(searches[i].calls) = 1]_vars

\* the search of " A" has ended on a rejected resolver.addr
C12_Witness ==
  /\ searches[1].pc = "idle"
  /\ searches[1].resolvedAddress = Rejected
  /\ searchTerm = <<" ", "A">>
  /\ searchError = <<"Resolution failed. Please check your connection.">>
  /\ ~searchResult.set

\* C13: once resolver.addr returned a non-null address, whichever of the
\* owner read and the three text reads reject, the search sets no error and
\* ends with an {available: false} result in which a rejected owner read is
\* the null address, a rejected text read is the empty string, and every read
\* that resolved keeps its value.
C13_BestEffortProfile ==
  /\ [][\A i \in 1..MaxSearches :
          (searches[i].pc = "owner" /\ searches'[i] # searches[i])
          => /\ searches'[i].pc = "text"
             /\ searchError' = searchError
             /\ searches'[i].owner =
                  (IF searches'[i].ownerReply = Rejected THEN ZeroAddress
                   ELSE searches'[i].ownerReply)]_vars
  /\ [][\A i \in 1..MaxSearches :
          ProfileAssembled(i)
          => LET got(k) == IF searches'[i].texts[k] = Rejected THEN <<>>
                           ELSE searches'[i].texts[k]
             IN  /\ searchError' = searchError
                 /\ searchResult'.set /\ ~searchResult'.available
                 /\ searchResult'.name = searches[i].query
                 /\ searchResult'.data.address = searches[i].resolvedAddress
                 /\ searchResult'.data.address \notin {Null, ZeroAddress, Rejected}
                 /\ searchResult'.data.owner =
                      (IF searches[i].ownerReply = Rejected THEN ZeroAddress
                       ELSE searches[i].ownerReply)
                 /\ searchResult'.data.avatar = resolveAvatarUrl(searches[i].query, got(1))
                 /\ searchResult'.data.twitter = got(2)
                 /\ searchResult'.data.url = got(3)]_vars

\* the owner read, the avatar read and the url read rejected, the com.twitter
\* read resolved: the profile holds the handle and the defaults
C13_Witness ==
  /\ searches[1].pc = "idle"
  /\ searches[1].ownerReply = Rejected
  /\ searches[1].texts = <<Rejected, <<"@m">>, Rejected>>
  /\ searchResult.set /\ ~searchResult.available
  /\ searchResult.data.owner = ZeroAddress
  /\ searchResult.data.avatar = <<>>
  /\ searchResult.data.twitter = <<"@m">>
  /\ searchResult.data.url = <<>>
  /\ searchError = Null

\* C14: the isMine flag of a taken name's result is true exactly when the
\* handler holds a wallet address that equals, ignoring letter case, the
\* owner or the resolved address of the result.
C14_IsMine ==
  [][\A i \in 1..MaxSearches :
       ProfileAssembled(i)
       => searchResult'.data.isMine =
            (/\ searches[i].address # Null
             /\ \/ toLowerCase(searches[i].address) = toLowerCase(searchResult'.data.owner)
                \/ toLowerCase(searches[i].address) = toLowerCase(searchResult'.data.address))]_vars

\* the wallet reports 0xa1; the name resolves to 0xA1 and is owned by 0xB1
C14_Witness ==
  /\ searchResult.set /\ ~searchResult.available
  /\ address = <<"0x", "a", "1">>
  /\ searchResult.data.owner = <<"0x", "B", "1">>
  /\ searchResult.data.address = <<"0x", "A", "1">>
  /\ searchResult.data.isMine

\* the avatar URL of a record: "" for the empty record, the record itself when
\* keep is true, the gateway URL for an ipfs URI, else the metadata URL of the name
AvatarUrl(name, record, keep) ==
  IF record = <<>> THEN <<>>
  ELSE IF keep THEN record
  ELSE IF Head(record) = "ipfs://"
       THEN <<"http", "s", "://", "ipfs.io/ipfs/">> \o Tail(record)
  ELSE <<"http", "s", "://", "metadata.ens.domains/mainnet/avatar/">> \o name

IsHttpUrl(record) ==
  \/ Len(record) >= 2 /\ SubSeq(record, 1, 2) = <<"http", "://">>
  \/ Len(record) >= 3 /\ SubSeq(record, 1, 3) = <<"http", "s", "://">>

HasHttpPrefix(record) == Len(record) >= 1 /\ Head(record) = "http"

\* the avatar record the search read, "" when the read rejected
AvatarRecordRead(r) == IF r.texts[1] = Rejected THEN <<>> ELSE r.texts[1]

\* C15 as stated: the avatar of the result is "" for an empty record, the
\* record itself when it is an http(s) URL, the ipfs.io gateway URL for an
\* ipfs URI, and the metadata URL ending with the name for every other record.
C15_AvatarUrlOfHttpUrls ==
  [][\A i \in 1..MaxSearches :
       ProfileAssembled(i)
       => searchResult'.data.avatar =
            AvatarUrl(searches[i].query, AvatarRecordRead(searches'[i]),
                      IsHttpUrl(AvatarRecordRead(searches'[i])))]_vars

\* C15 amended: as stated, but the records returned unchanged are those that
\* start with "http".
C15_AvatarUrlOfHttpPrefix ==
  [][\A i \in 1..MaxSearches :
       ProfileAssembled(i)
       => searchResult'.data.avatar =
            AvatarUrl(searches[i].query, AvatarRecordRead(searches'[i]),
                      HasHttpPrefix(AvatarRecordRead(searches'[i])))]_vars

\* the record "httpx" is shown as it is
C15_Witness ==
  /\ searches[1].pc = "idle"
  /\ searches[1].texts[1] = <<"http", "x">>
  /\ searchResult.set
  /\ searchResult.data.avatar = <<"http", "x">>

\* the step in which identity refresh i ends
RefreshEnds(i) == refreshes[i].pc # "idle" /\ refreshes'[i].pc = "idle"

\* the step in which identity refresh i ends in its catch block
RefreshFails(i) == RefreshEnds(i) /\ refreshes'[i].outcome = "failed"

\* C16: every run of fetchIdentityData calls registrar.balanceOf for the
\* address it refreshes, whatever the reverse lookup did.
C16_BalanceAlwaysQueried ==
  [][\A i \in 1..MaxRefreshes :
       RefreshEnds(i)
       => \E k \in 1..Len(refreshes[i].calls) :
            refreshes[i].calls[k] = Call("registrar.balanceOf", <<refreshes[i].address>>)]_vars

\* C17: after a run of fetchIdentityData that failed, userProfile is null and
\* the root-name balance is zero.
C17_FailedRunClearsIdentity ==
  [][\A i \in 1..MaxRefreshes :
       RefreshFails(i) => userProfile' = NoProfile /\ rootNameBalance' = 0]_vars

\* C18: when registry.resolver returns the null address for the node of the
\* primary name, the avatar record is read from RESOLVER_ADDRESS.
C18_DefaultResolverForAvatar ==
  [][\A i \in 1..MaxRefreshes :
       (refreshes[i].pc = "resolver" /\ refreshes'[i].resolverReply = ZeroAddress)
       => /\ refreshes'[i].pc = "text"
          /\ refreshes'[i].calls[Len(refreshes'[i].calls)] =
               Call("resolver.text", <<RESOLVER_ADDRESS, refreshes[i].node, <<"avatar">> >>)]_vars

HasRecognizedSuffix(name) ==
  /\ name # Null
  /\ \/ endsWith(toLowerCase(name), <<".", "base", ".", "eth">>)
     \/ endsWith(toLowerCase(name), <<".", "eth">>)

\* C19: when the reverse lookup returns a name with a recognized suffix
\* (ignoring case) the run goes on to store it; when it returns no name or a
\* name with another suffix, userProfile is set to null in that step; and
\* userProfile never holds a name without a recognized suffix.
C19_OnlyRecognizedNames ==
  /\ [][\A i \in 1..MaxRefreshes :
          (refreshes[i].pc = "lookupAddress" /\ refreshes'[i].pc \notin {"idle", "lookupAddress"})
          => IF HasRecognizedSuffix(refreshes'[i].name)
             THEN refreshes'[i].pc = "resolver" /\ userProfile' = userProfile
             ELSE refreshes'[i].pc = "balanceOf" /\ userProfile' = NoProfile]_vars
  /\ [][(userProfile' # userProfile /\ userProfile'.set)
          => \E i \in 1..MaxRefreshes :
               /\ refreshes[i].pc \in {"resolver", "text"}
               /\ userProfile'.name = refreshes[i].name]_vars
  /\ [](userProfile.set => HasRecognizedSuffix(userProfile.name))

\* the lookup returned m.BASE.ETH, which is stored as the primary name
C19_Witness ==
  /\ userProfile.set
  /\ userProfile.name = <<"m", ".", "BASE", ".", "ETH">>
  /\ \E i \in 1..MaxRefreshes : refreshes[i].pc = "balanceOf"

\* C20: at most one handler is registered for each wallet event at any time.
C20_OneHandlerPerEvent ==
  /\ listeners.accountsChanged <= 1
  /\ listeners.chainChanged <= 1

\* the step in which search i ends
SearchEnds(i) == searches[i].pc # "idle" /\ searches'[i].pc = "idle"

\* search i has run and ended
SearchRan(i) == searches[i].pc = "idle" /\ searches[i].started > 0

\* C21: a search that ends writes its own outcome to the shared state, whatever
\* other search is in flight or was started after it: either the result of
\* its own query, or the resolution-failed error beside the result that was
\* on display.
C21_EachSearchWritesItsOutcome ==
  [][\A i \in 1..MaxSearches :
       SearchEnds(i)
       => /\ ~isSearching'
          /\ \/ searchResult'.set /\ searchResult'.name = searches[i].query
             \/ searchError' = RESOLUTION_FAILED /\ searchResult' = searchResult]_vars

\* two searches of different names have both ended with a result, and the
\* result on display is that of the search that was started first
C21_Witness ==
  \E i, j \in 1..MaxSearches :
    /\ SearchRan(i) /\ SearchRan(j)
    /\ searches[i].started < searches[j].started
    /\ searches[i].resolvedAddress = ZeroAddress
    /\ searches[j].resolvedAddress = ZeroAddress
    /\ searches[i].query # searches[j].query
    /\ searchResult.set
    /\ searchResult.name = searches[i].query

\* C22: while an invocation of the search, of the identity refresh or of the
\* mint has a call outstanding, the busy flag of that operation is true.
C22_BusyWhileOutstanding ==
  /\ (\E i \in 1..MaxSearches : searches[i].pc # "idle") => isSearching
  /\ (\E i \in 1..MaxRefreshes : refreshes[i].pc # "idle") => isRefreshing
  /\ (\E i \in 1..MaxMints : mints[i].pc # "idle") => isMinting

\* the state the mint form and handleMintSubname write
MintState == <<parentName, subLabel, targetAddress, isMinting, mintStatus, recentMints, mints>>

\* C23: a step of handleSearch leaves the mint state as it is, and a step of
\* handleMintSubname leaves the search state as it is.
C23_SearchAndMintDisjoint ==
  [][/\ (<<isSearching, searchResult, searchError, searches>>'
           # <<isSearching, searchResult, searchError, searches>>)
        => MintState' = MintState
     /\ (mints' # mints) => searchVars' = searchVars]_vars

\* a search and a mint are in flight together: the search awaits
\* resolver.addr while the mint awaits the confirmation of its transaction
C23_Witness ==
  /\ \E i \in 1..MaxSearches : searches[i].pc = "addr"
  /\ \E i \in 1..MaxMints : mints[i].pc = "wait"

\* C24: when every call settles, every search, identity refresh and mint that
\* is in flight ends; the step in which it ends resets its busy flag; and a
\* busy flag that is true becomes false again.
C24_EveryOperationEnds ==
  /\ \A i \in 1..MaxSearches : (searches[i].pc # "idle") ~> (searches[i].pc = "idle")
  /\ \A i \in 1..MaxRefreshes : (refreshes[i].pc # "idle") ~> (refreshes[i].pc = "idle")
  /\ \A i \in 1..MaxMints : (mints[i].pc # "idle") ~> (mints[i].pc = "idle")
  /\ [][/\ \A i \in 1..MaxSearches : SearchEnds(i) => ~isSearching'
        /\ \A i \in 1..MaxRefreshes : RefreshEnds(i) => ~isRefreshing'
        /\ \A i \in 1..MaxMints : MintEnds(i) => ~isMinting']_vars
  /\ isSearching ~> ~isSearching
  /\ isRefreshing ~> ~isRefreshing
  /\ isMinting ~> ~isMinting

\* a mint has failed, a refresh has ended and a search has ended with the
\* resolution-failed error; no flag is left set
C24_Witness ==
  /\ mintStatus.type = "error"
  /\ searchError = RESOLUTION_FAILED
  /\ \A i \in 1..MaxMints : mints[i].pc = "idle"
  /\ \A i \in 1..MaxSearches : searches[i].pc = "idle"
  /\ \A i \in 1..MaxRefreshes : refreshes[i].pc = "idle"
  /\ ~isSearching /\ ~isRefreshing /\ ~isMinting

\* C25: a search result and a search error are never on display together.
C25_ResultXorError == ~(searchResult.set /\ searchError # Null)

\* the step in which a click on a trending tag puts the tag in the search box
TagClicked == searchTerm' \in Tags /\ searchTerm' # searchTerm

\* C26: a click on a trending tag starts a search that looks up that tag.
C26_TagClickSearchesTag ==
  [][TagClicked
     => \E i \in 1..MaxSearches :
          /\ searches[i].pc = "idle" /\ searches'[i].pc = "addr"
          /\ searches'[i].query = NormalizedQuery(searchTerm')]_vars

\* C27: when no identity refresh is in flight and an address is connected,
\* neither userProfile nor rootNameBalance holds what was fetched for another
\* address.
C27_IdentityOfConnectedAddress ==
  ((\A i \in 1..MaxRefreshes : refreshes[i].pc = "idle") /\ address # Null)
  => /\ shownFor.userProfile \in {address, Null}
     /\ shownFor.rootNameBalance \in {address, Null}

\* the arguments of the setSubnodeOwner call mint m has made
SubnodeCall(m) ==
  m.calls[CHOOSE k \in CallsOf(m, "registry.setSubnodeOwner") : TRUE].args

\* C28: the name a confirmed mint records in the session log is the name of
\* the subnode its transaction created: the name hash of the recorded name is
\* the fold of the parent node with the label hash handed to setSubnodeOwner.
C28_LoggedNameIsSubnode ==
  [][\A i \in 1..MaxMints :
       WaitCompletes(i)
       => namehash(Head(recentMints').name)
            = FoldNode(SubnodeCall(mints[i])[1], SubnodeCall(mints[i])[2])]_vars

SwitchToBaseStatus ==
  [type |-> "error", msg |-> <<"Please switch to Base Mainnet.">>, txHash |-> 0]

\* the step in which the getNetwork call of mint i settles
NetworkSettles(i) == mints[i].pc = "getNetwork" /\ mints'[i].pc # "getNetwork"

\* C29 as stated: a mint started while the wallet is on another chain than
\* Base ends with the switch-to-Base error, having made no registry call.
C29_StartedOffBase ==
  [][\A i \in 1..MaxMints :
       (MintEnds(i) /\ mints[i].startChain # BASE_CHAIN_ID_DECIMAL)
       => mintStatus' = SwitchToBaseStatus /\ RegistryCalls(mints[i]) = {}]_vars

\* C29 amended: a mint whose getNetwork call settles while the wallet is on
\* another chain than Base ends in that step with an error, having made no
\* registry call, whatever the chainId state holds; the error is the
\* switch-to-Base error unless getNetwork rejected.  And a mint makes its first
\* registry call only in the step in which getNetwork resolves while the
\* wallet is on Base.
C29_OffBaseAtNetworkReply ==
  /\ [][\A i \in 1..MaxMints :
          (NetworkSettles(i) /\ walletChain # BASE_CHAIN_ID_DECIMAL)
          => /\ mints'[i].pc = "idle"
             /\ RegistryCalls(mints[i]) = {}
             /\ mintStatus'.type = "error"
             /\ mints'[i].thrown \notin Errors => mintStatus' = SwitchToBaseStatus]_vars
  /\ [][\A i \in 1..MaxMints :
          (RegistryCalls(mints[i]) = {} /\ RegistryCalls(mints'[i]) # {})
          => mints[i].pc = "getNetwork" /\ walletChain = BASE_CHAIN_ID_DECIMAL]_vars

\* a mint has ended on the switch-to-Base error while the chainId state, set
\* by the late reply to the mount request, holds Base and the wallet is on
\* another chain
C29_Witness ==
  /\ mintStatus = SwitchToBaseStatus
  /\ chainId = BASE_CHAIN_ID_DECIMAL
  /\ walletChain # BASE_CHAIN_ID_DECIMAL
  /\ \A i \in 1..MaxMints : mints[i].pc = "idle"

\* C30: while the search result on display has isMine set, the connected
\* address is, ignoring case, the owner or the resolved address of the result.
C30_IsMineOfConnectedAddress ==
  (searchResult.set /\ searchResult.data.isMine)
  => IsMine(address, searchResult.data.owner, searchResult.data.address)
====
